---- MODULE Spec2Model ----
(***************************************************************************)
(* Model of the country API server (src/api_server.py, src/api_utils.py)   *)
(* and of the batch ingestion (src/database.py).                           *)
(*                                                                         *)
(* Six specifications share  the variables:                                *)
(*   MapSpec     the store holds arbitrary countries / country_data tables *)
(*               and the map handler runs the latest-value reducer         *)
(*               get_db_countries over them;                               *)
(*   ViewSpec    the three map endpoints (all records, valid countries,    *)
(*               regions) over the same kind of store;                     *)
(*   Spec        concurrent GET /countries_info/<code> requests running    *)
(*               the cache-aside lookup over country_details;              *)
(*   IngestSpec  runs of the World Bank ingestion steps that fill          *)
(*               countries and country_data;                               *)
(*   PipelineSpec  one run of main, the batch pipeline, step by step;      *)
(*   ServerSpec  the lookups, the map endpoints and /health together.      *)
(*                                                                         *)
(* Representation.  SQL NULL, Python None and pandas NaN are the empty     *)
(* tuple <<>>; a number n is the 1-tuple <<n>>.  Observation values are    *)
(* counted in thousandths (125 is 0.125), and only multiples of 1/8 are    *)
(* used, which binary floating point holds exactly, so that Python's       *)
(* round(v, 2) is round-half-to-even on the decimal value.                 *)
(***************************************************************************)
EXTENDS Integers, Sequences, FiniteSets, TLC

VARIABLES
    tables,           \* names of the tables that exist in worldbank.db
    countries,        \* table countries: set of rows, iso_code is the key
    country_data,     \* table country_data: key <<country_code, indicator_code, year>> -> value
    data,             \* map handlers: what get_db_countries() returned
    response,         \* map handlers: the response of the last map request
    country_details,  \* table country_details: set of rows, code is UNIQUE
    next_id,          \* AUTOINCREMENT counter of country_details.id
    reqs,             \* the GET /countries_info/<code> requests, by request number
    open_conns,       \* number of store connections that are open
    ingest            \* the ingestion process of src/database.py

vars == <<tables, countries, country_data, data, response, country_details, next_id, reqs,
          open_conns, ingest>>

mapVars == <<tables, countries, country_data, data, response>>
infoVars == <<country_details, next_id, reqs>>

(***************************************************************************)
(* Values                                                                  *)
(***************************************************************************)
NULL == <<>>
Num(n) == <<n>>
IsNa(v) == v = NULL

\* the strings the model orders, in ascending (code point) order
StrOrder == <<"1W", "FP.CPI.TOTL.ZG", "NY.GDP.MKTP.CD", "NY.GDP.MKTP.KD.ZG", "NY.GDP.PCAP.CD",
              "SL.UEM.TOTL.ZS", "SP.POP.TOTL", "VN", "Z4">>
StrRank(s) == CHOOSE i \in 1..Len(StrOrder) : StrOrder[i] = s
StrLess(a, b) == StrRank(a) < StrRank(b)

valid_iso3_codes ==
    {"DZA", "BEL", "GNB", "HUN", "NLD", "BWA", "BLZ", "HKG", "FIN", "MLT", "ARM", "MNE", "MNG", "AUS",
     "SWZ", "MRT", "URY", "BIH", "MDG", "BRB", "ECU", "CAF", "SUR", "OMN", "GIN", "MAR", "KHM", "SWE",
     "LVA", "TJK", "MWI", "PRT", "USA", "HND", "PHL", "SDN", "NPL", "TKM", "IRL", "SOM", "BOL", "GMB",
     "LBR", "UKR", "IRN", "LUX", "AUT", "GEO", "NIC", "LBN", "AGO", "COD", "ISR", "CHE", "THA", "RUS",
     "QAT", "TTO", "ITA", "PRI", "TLS", "TZA", "COL", "ALB", "ROU", "COM", "DNK", "MDA", "SRB", "KEN",
     "GBR", "KGZ", "GTM", "JAM", "KOR", "COG", "CYP", "CHN", "MDV", "SYR", "PSE", "IND", "ZAF", "STP",
     "PAK", "SVN", "POL", "LTU", "ESP", "ARG", "GRC", "REU", "HTI", "CRI", "SAU", "GAB", "NZL", "SVK",
     "NER", "LBY", "EGY", "ERI", "SLV", "SEN", "BEN", "CHL", "MLI", "BTN", "SLE", "MKD", "PRY", "NOR",
     "DEU", "JOR", "KWT", "BGD", "ARE", "YEM", "HRV", "LSO", "ZMB", "MOZ", "VNM", "ETH", "NAM", "TUN",
     "AZE", "LKA", "CZE", "PAN", "LAO", "GHA", "BLR", "PER", "AFG", "LIE", "BRA", "DOM", "IDN", "IRQ",
     "BGR", "BDI", "FRA", "BFA", "UZB", "RWA", "EST", "VEN", "CMR", "CUB", "MMR", "TWN", "KAZ", "TUR",
     "FJI", "BHR", "TCD", "PNG", "SGP", "CIV", "MEX", "GUY", "NGA", "CAN", "MUS", "MYS", "JPN", "ISL",
     "TGO", "AND", "UGA", "ZWE", "DJI", "GNQ"}

geo_regions == {"EAS", "ECS", "LCN", "MEA", "NAC", "SAS", "SSF"}

\* the five indicator keys the map handlers copy into a response record
MapIndicators == {"FP.CPI.TOTL.ZG", "NY.GDP.MKTP.CD", "NY.GDP.PCAP.CD", "SL.UEM.TOTL.ZS", "SP.POP.TOTL"}

(***************************************************************************)
(* The store contents the map specification ranges over                    *)
(***************************************************************************)
MaxObs == 2

Iso3Codes == {"VNM", "EAS", "WLD"}
Iso2Codes == {"VN", "Z4"}
\* the display names a countries row of each code may carry
NamesOf(iso) ==
    IF iso = "VNM" THEN {"Viet Nam", "World"}
    ELSE IF iso = "WLD" THEN {"World"}
    ELSE {"East Asia & Pacific"}
IndicatorCodes == {"SP.POP.TOTL", "NY.GDP.MKTP.KD.ZG"}
Years == {2020, 2021}
ObsValues == {NULL, Num(125), Num(98250)}

CountryRows ==
    {[iso_code |-> p[1], iso2_code |-> p[2], name |-> n] :
        <<p, n>> \in {q \in (Iso3Codes \X Iso2Codes) \X UNION {NamesOf(i) : i \in Iso3Codes} :
                        q[2] \in NamesOf(q[1][1])}}
ObsKeys == Iso2Codes \X IndicatorCodes \X Years

\* countries: iso_code TEXT PRIMARY KEY
CountriesTables ==
    {T \in SUBSET CountryRows : \A a, b \in T : a.iso_code = b.iso_code => a = b}

\* country_data: PRIMARY KEY (country_code, indicator_code, year), value REAL (nullable)
CountryDataTables ==
    UNION {[K -> ObsValues] : K \in {K \in SUBSET ObsKeys : Cardinality(K) <= MaxObs}}

(***************************************************************************)
(* get_db_countries (src/api_utils.py)                                     *)
(***************************************************************************)
\* round(float(v), 2) on a value counted in thousandths
Round2(n) ==
    LET q == n \div 10
        r == n % 10
    IN  IF r < 5 THEN q * 10
        ELSE IF r > 5 THEN (q + 1) * 10
        ELSE IF q % 2 = 0 THEN q * 10 ELSE (q + 1) * 10

\* the scan orders of the countries table (the query has no ORDER BY)
RowOrders(T) ==
    {o \in [1..Cardinality(T) -> T] : \A i, j \in 1..Cardinality(T) : o[i] = o[j] => i = j}

\* SELECT * FROM countries JOIN country_data ON countries.iso2_code = country_data.country_code
\* ci is the position of the countries row in the scan
JoinRows(ord) ==
    {[ci |-> p[1],
      iso_code |-> ord[p[1]].iso_code,
      iso2_code |-> ord[p[1]].iso2_code,
      name |-> ord[p[1]].name,
      indicator_code |-> p[2][2],
      year |-> p[2][3],
      value |-> country_data[p[2]]] :
        p \in {p \in (1..Len(ord)) \X DOMAIN country_data : p[2][1] = ord[p[1]].iso2_code}}

\* row a comes before row b in the DataFrame (nested loop: countries scan, then
\* country_data in primary-key order)
Precedes(a, b) ==
    \/ a.ci < b.ci
    \/ /\ a.ci = b.ci
       /\ \/ StrLess(a.indicator_code, b.indicator_code)
          \/ a.indicator_code = b.indicator_code /\ a.year < b.year

GroupKeys(J) == {<<r.iso2_code, r.indicator_code>> : r \in J}
Group(J, g) == {r \in J : r.iso2_code = g[1] /\ r.indicator_code = g[2]}

KeyLess(g, h) == StrLess(g[1], h[1]) \/ (g[1] = h[1] /\ StrLess(g[2], h[2]))

RECURSIVE SortedKeys(_)
SortedKeys(K) ==
    IF K = {} THEN <<>>
    ELSE LET m == CHOOSE k \in K : \A o \in K \ {k} : KeyLess(k, o)
         IN  <<m>> \o SortedKeys(K \ {m})

\* IdxMax as a reducer that keeps the earliest year of the group
IdxMin(J, g) ==
    CHOOSE r \in Group(J, g) :
        \A s \in Group(J, g) \ {r} : s.year > r.year \/ (s.year = r.year /\ Precedes(r, s))

\* IdxMax as a reducer that skips missing values: the latest year among the rows of
\* the group that carry a value, when there is one
IdxMaxNotNa(J, g) ==
    LET G == IF \E r \in Group(J, g) : ~IsNa(r.value)
             THEN {r \in Group(J, g) : ~IsNa(r.value)}
             ELSE Group(J, g)
    IN  CHOOSE r \in G :
            \A s \in G \ {r} : s.year < r.year \/ (s.year = r.year /\ Precedes(r, s))

\* groupby(['iso2_code', 'indicator_code'])['year'].idxmax(): the first row of the
\* group, in DataFrame order, that carries the group's maximum year
IdxMax(J, g) ==
    CHOOSE r \in Group(J, g) :
        \A s \in Group(J, g) \ {r} : s.year < r.year \/ (s.year = r.year /\ Precedes(r, s))

\* countries.loc[idx][["iso_code", "iso2_code", "name", "indicator_code", "value"]]
Selected(J) ==
    LET keys == SortedKeys(GroupKeys(J))
    IN  [n \in 1..Len(keys) |->
            LET r == IdxMax(J, keys[n])
            IN  [iso_code |-> r.iso_code, iso2_code |-> r.iso2_code, name |-> r.name,
                 indicator_code |-> r.indicator_code, value |-> r.value]]

\* {k: (None if pd.isna(v) else round(float(v), 2)) for k, v in zip(...)}
IndicatorEntry(v) == IF IsNa(v) THEN NULL ELSE Num(Round2(v[1]))

\* groupby('iso_code').apply(...).to_dict()
IndicatorMap(sel) ==
    [iso \in {sel[n].iso_code : n \in 1..Len(sel)} |->
        LET rows == {n \in 1..Len(sel) : sel[n].iso_code = iso}
        IN  [k \in {sel[n].indicator_code : n \in rows} |->
                LET last == CHOOSE n \in rows :
                                /\ sel[n].indicator_code = k
                                /\ \A m \in rows : sel[m].indicator_code = k => m <= n
                IN  IndicatorEntry(sel[last].value)]]

\* DataFrame.drop_duplicates(): keep the first occurrence of each row
RECURSIVE DropDuplicates(_, _)
DropDuplicates(s, i) ==
    IF i > Len(s) THEN <<>>
    ELSE (IF \E j \in 1..(i - 1) : s[j] = s[i] THEN <<>> ELSE <<s[i]>>)
         \o DropDuplicates(s, i + 1)

\* indicator_map.get(iso, {})
EmptyDict == [k \in {} |-> NULL]
MapGet(m, iso) == IF iso \in DOMAIN m THEN m[iso] ELSE EmptyDict

\* the pandas pipeline of get_db_countries, lines 133-149
Reduce(J) ==
    LET sel == Selected(J)
        indicator_map == IndicatorMap(sel)
        heads == DropDuplicates(
                    [n \in 1..Len(sel) |->
                        [iso_code |-> sel[n].iso_code, iso2_code |-> sel[n].iso2_code,
                         name |-> sel[n].name]], 1)
    IN  [n \in 1..Len(heads) |->
            [iso_code |-> heads[n].iso_code, iso2_code |-> heads[n].iso2_code,
             name |-> heads[n].name, indicator |-> MapGet(indicator_map, heads[n].iso_code)]]

\* get_db_countries(): raises when a table of the query is missing
get_db_countries(ord) ==
    IF {"countries", "country_data"} \subseteq tables
    THEN [raised |-> FALSE, records |-> Reduce(JoinRows(ord))]
    ELSE [raised |-> TRUE, records |-> <<>>]

\* get_db_countries() of src/api_utils_1.py, which the server does not import: it asks
\* sqlite_master for the two tables first and returns [] when one is missing
get_db_countries_1(ord) ==
    IF Cardinality({"countries", "country_data"} \cap tables) < 2
    THEN [raised |-> FALSE, records |-> <<>>]
    ELSE [raised |-> FALSE, records |-> Reduce(JoinRows(ord))]

\* a connection the code opened and left without close() (get_db_countries closes on
\* its last line only): it is open until the runtime finalizes the object, which may
\* or may not have happened when the caller goes on
Unclosed(n) == {n, n + 1}

(***************************************************************************)
(* GET /country_info/map (src/api_server.py)                               *)
(***************************************************************************)
\* indicator_data.get(key)
DictGet(d, k) == IF k \in DOMAIN d THEN d[k] ELSE NULL

\* FormatIndicator without the removal of the None values
FormatIndicatorKeepNone(d) ==
    [k \in MapIndicators |-> DictGet(d, k)]

\* the five fixed keys, then "Remove None values from indicator"
FormatIndicator(d) ==
    [k \in {k \in MapIndicators : DictGet(d, k) # NULL} |-> DictGet(d, k)]

\* FormatEntry as a handler that passes the reducer's indicator mapping on as it is
FormatEntryUnprojected(country) ==
    [iso_code |-> country.iso_code, iso2_code |-> country.iso2_code,
     name |-> country.name, indicator |-> country.indicator]

FormatEntry(country) ==
    [iso_code |-> country.iso_code, iso2_code |-> country.iso2_code,
     name |-> country.name, indicator |-> FormatIndicator(country.indicator)]

NoData == [raised |-> FALSE, records |-> <<>>]
NoResponse == [route |-> "", status |-> 0, error |-> FALSE, body |-> <<>>]

\* the ingestion process before main() has started
NoIngest ==
    [steps |-> 0, valid_iso3_codes |-> <<>>, written |-> <<>>,
     pc |-> "", started |-> <<>>, returned |-> "", todo |-> <<>>, npairs |-> 0,
     attempted |-> 0, failed_at |-> 0, existing_codes |-> {}, codes_todo |-> <<>>]

\* jsonify(formatted_data), or the except clause of the handler: status 500 and
\* {"error": "Failed to get ...: <message>"}
MapResponse(route, got, formatted_data) ==
    IF got.raised
    THEN [route |-> route, status |-> 500, error |-> TRUE, body |-> <<>>]
    ELSE [route |-> route, status |-> 200, error |-> FALSE, body |-> formatted_data]

\* one map request is served per behaviour: response records what it answered
get_country_map_data ==
    \E ord \in RowOrders(countries) :
        LET got == get_db_countries(ord)
        IN  /\ response = NoResponse
            /\ data' = got
            /\ response' = MapResponse("/country_info/map", got,
                                [n \in 1..Len(got.records) |-> FormatEntry(got.records[n])])
            /\ open_conns' \in (IF got.raised THEN Unclosed(open_conns) ELSE {open_conns})
            /\ UNCHANGED <<tables, countries, country_data>>
            /\ UNCHANGED <<infoVars, ingest>>

MapInit ==
    /\ tables \in {{"country_details"},
                   {"country_details", "countries"},
                   {"country_details", "countries", "country_data"}}
    /\ countries \in (IF "countries" \in tables THEN CountriesTables ELSE {{}})
    /\ country_data \in (IF "country_data" \in tables THEN CountryDataTables ELSE {<<>>})
    /\ data = NoData
    /\ response = NoResponse
    /\ country_details = {}
    /\ next_id = 1
    /\ reqs = <<>>
    /\ open_conns = 0
    /\ ingest = NoIngest

MapNext == get_country_map_data

MapSpec == MapInit /\ [][MapNext]_vars

(***************************************************************************)
(* GET /country_info/map/valid and GET /country_info/map/regions           *)
(***************************************************************************)
\* str.lower() on the names of the model
Lower(s) ==
    CASE s = "Viet Nam" -> "viet nam"
      [] s = "World" -> "world"
      [] s = "East Asia & Pacific" -> "east asia & pacific"
      [] OTHER -> s

\* IsValidCountry as a filter that does not look at the name
IsValidCountryAnyName(country) == country.iso_code \in valid_iso3_codes

\* the records the valid view keeps: not (name == "world" or iso_code not in valid_iso3_codes)
IsValidCountry(country) ==
    ~(Lower(country.name) = "world" \/ country.iso_code \notin valid_iso3_codes)

\* IsRegion as a filter that lets the allow-listed countries through as well
IsRegionOrCountry(country) ==
    country.iso_code \in geo_regions \/ country.iso_code \in valid_iso3_codes

\* the records the regions view keeps: not (iso_code not in geo_regions)
IsRegion(country) == ~(country.iso_code \notin geo_regions)

\* FormatKept as a view that leaves out a record whose indicator mapping is empty
FormatKeptWithEntries(kept) ==
    LET full == SelectSeq(kept, LAMBDA c : DOMAIN FormatIndicator(c.indicator) # {})
    IN  [n \in 1..Len(full) |-> FormatEntry(full[n])]

\* the entries of the records a view keeps, in the order of the reducer's output
FormatKept(kept) == [n \in 1..Len(kept) |-> FormatEntry(kept[n])]

get_valid_country_map_data ==
    \E ord \in RowOrders(countries) :
        LET got == get_db_countries(ord)
        IN  /\ response = NoResponse
            /\ data' = got
            /\ response' = MapResponse("/country_info/map/valid", got,
                                FormatKept(SelectSeq(got.records, IsValidCountry)))
            /\ open_conns' \in (IF got.raised THEN Unclosed(open_conns) ELSE {open_conns})
            /\ UNCHANGED <<tables, countries, country_data>>
            /\ UNCHANGED <<infoVars, ingest>>

get_region_map_data ==
    \E ord \in RowOrders(countries) :
        LET got == get_db_countries(ord)
        IN  /\ response = NoResponse
            /\ data' = got
            /\ response' = MapResponse("/country_info/map/regions", got,
                                FormatKept(SelectSeq(got.records, IsRegion)))
            /\ open_conns' \in (IF got.raised THEN Unclosed(open_conns) ELSE {open_conns})
            /\ UNCHANGED <<tables, countries, country_data>>
            /\ UNCHANGED <<infoVars, ingest>>

\* the observations the view specification ranges over: those of one year
ViewObsKeys == {k \in ObsKeys : k[3] = 2021}
ViewDataTables == {T \in CountryDataTables : DOMAIN T \subseteq ViewObsKeys}

ViewInit ==
    /\ tables \in {{"country_details"},
                   {"country_details", "countries"},
                   {"country_details", "countries", "country_data"}}
    /\ countries \in (IF "countries" \in tables THEN CountriesTables ELSE {{}})
    /\ country_data \in (IF "country_data" \in tables THEN ViewDataTables ELSE {<<>>})
    /\ data = NoData
    /\ response = NoResponse
    /\ country_details = {}
    /\ next_id = 1
    /\ reqs = <<>>
    /\ open_conns = 0
    /\ ingest = NoIngest

ViewNext ==
    \/ get_country_map_data
    \/ get_valid_country_map_data
    \/ get_region_map_data

ViewSpec == ViewInit /\ [][ViewNext]_vars

(***************************************************************************)
(* Properties of the reducer and of the map handler (MapSpec)              *)
(***************************************************************************)
\* the map request was served and get_db_countries returned
Reduced == response # NoResponse /\ ~data.raised

\* the observations the join attaches to countries row c for indicator i
JoinedObs(c, i) == {k \in DOMAIN country_data : k[1] = c.iso2_code /\ k[2] = i}
JoinedIndicators(c) == {i \in IndicatorCodes : JoinedObs(c, i) # {}}
\* the observation of the maximum year (the key makes it unique)
LatestObs(c, i) == CHOOSE k \in JoinedObs(c, i) : \A o \in JoinedObs(c, i) : o[3] <= k[3]
CountryOf(iso) == CHOOSE c \in countries : c.iso_code = iso
\* the primary codes that occur in the join
JoinedIsoCodes == {c.iso_code : c \in {c \in countries : JoinedIndicators(c) # {}}}
RecordsOf(recs, iso) == {n \in 1..Len(recs) : recs[n].iso_code = iso}

\* C1: every value get_db_countries reports for a (country, indicator) pair is the value
\* of the pair's observation of the maximum year, as the reducer renders it (rounded to
\* two decimals, None when missing), and a record reports every indicator its country
\* has joined observations for.
C1_LatestYearValue ==
    Reduced =>
        \A n \in 1..Len(data.records) :
            LET rec == data.records[n]
                c == CountryOf(rec.iso_code)
            IN  /\ rec.iso_code \in {x.iso_code : x \in countries}
                /\ DOMAIN rec.indicator = JoinedIndicators(c)
                /\ \A i \in DOMAIN rec.indicator :
                      rec.indicator[i] = IndicatorEntry(country_data[LatestObs(c, i)])

\* a pair with observations of two years and different values was reduced
C1_Witness ==
    /\ Reduced
    /\ \E n \in 1..Len(data.records) :
          LET c == CountryOf(data.records[n].iso_code)
          IN  \E i \in DOMAIN data.records[n].indicator :
                 /\ Cardinality(JoinedObs(c, i)) = 2
                 /\ \E k \in JoinedObs(c, i) :
                       /\ k # LatestObs(c, i)
                       /\ ~IsNa(country_data[k])
                       /\ ~IsNa(country_data[LatestObs(c, i)])
                       /\ country_data[k] # country_data[LatestObs(c, i)]

\* C2: the output of get_db_countries holds exactly one record for each primary code
\* that occurs in the join, also when two countries rows carry the same secondary code.
C2_OneRecordPerJoinedCode ==
    Reduced =>
        /\ {data.records[n].iso_code : n \in 1..Len(data.records)} = JoinedIsoCodes
        /\ \A n, m \in 1..Len(data.records) :
              data.records[n].iso_code = data.records[m].iso_code => n = m

\* C3 as stated: no record of the output of get_db_countries has an indicator entry
\* whose value is null.
C3_ReducerHasNoNull ==
    Reduced =>
        \A n \in 1..Len(data.records) :
            \A i \in DOMAIN data.records[n].indicator : data.records[n].indicator[i] # NULL

\* C3 as amended: get_db_countries keeps an indicator whose selected observation is
\* NULL as an entry with value None (and only such an indicator), and the map handler
\* removes these entries, so that no record of the map response has a null entry.
C3_NullDroppedByHandler ==
    Reduced =>
        /\ \A n \in 1..Len(data.records) :
              LET rec == data.records[n]
              IN  \A i \in DOMAIN rec.indicator :
                     rec.indicator[i] = NULL
                        <=> IsNa(country_data[LatestObs(CountryOf(rec.iso_code), i)])
        /\ Len(response.body) = Len(data.records)
        /\ \A n \in 1..Len(response.body) :
              \A i \in DOMAIN response.body[n].indicator :
                  response.body[n].indicator[i] # NULL

\* the reducer returned a None entry under a key the handler copies
C3_Witness ==
    /\ Reduced
    /\ \E n \in 1..Len(data.records) :
          \E i \in DOMAIN data.records[n].indicator \cap MapIndicators :
              /\ data.records[n].indicator[i] = NULL
              /\ i \notin DOMAIN response.body[n].indicator

\* C4: when the observation of the maximum year of a (country, indicator) pair has no
\* value, it is still the one selected: the reducer's record carries no number for the
\* pair, the response record carries no entry for it, and no earlier value stands in.
C4_NullLatestNotReplaced ==
    Reduced =>
        \A c \in countries : \A i \in JoinedIndicators(c) :
            IsNa(country_data[LatestObs(c, i)]) =>
                /\ \A n \in RecordsOf(data.records, c.iso_code) :
                      i \in DOMAIN data.records[n].indicator
                          => data.records[n].indicator[i] = NULL
                /\ \A n \in RecordsOf(response.body, c.iso_code) :
                      i \notin DOMAIN response.body[n].indicator

\* a pair whose latest observation is NULL and whose earlier one has a value was
\* reduced, under a key the handler copies
C4_Witness ==
    /\ Reduced
    /\ \E c \in countries : \E i \in JoinedIndicators(c) \cap MapIndicators :
          /\ IsNa(country_data[LatestObs(c, i)])
          /\ \E k \in JoinedObs(c, i) : ~IsNa(country_data[k])
          /\ RecordsOf(response.body, c.iso_code) # {}

\* the non-null entries of a record of the reducer
NonNullKeys(rec) == {k \in DOMAIN rec.indicator : rec.indicator[k] # NULL}

\* C14 as stated: GET /country_info/map returns one record per record of
\* get_db_countries, in the same order, with the same iso_code, iso2_code and name, and
\* with every non-null indicator entry of the reducer's record, whatever its indicator
\* code, present with the same value.
C14_MapReturnsEveryEntry ==
    Reduced =>
        /\ Len(response.body) = Len(data.records)
        /\ \A n \in 1..Len(data.records) :
              LET rec == data.records[n]
                  out == response.body[n]
              IN  /\ out.iso_code = rec.iso_code
                  /\ out.iso2_code = rec.iso2_code
                  /\ out.name = rec.name
                  /\ \A k \in NonNullKeys(rec) :
                        k \in DOMAIN out.indicator /\ out.indicator[k] = rec.indicator[k]

\* C14 as amended: the same, for the non-null entries under the five indicator codes
\* the handler copies; the response record has no other entry.
C14_MapReturnsFixedEntries ==
    Reduced =>
        /\ Len(response.body) = Len(data.records)
        /\ \A n \in 1..Len(data.records) :
              LET rec == data.records[n]
                  out == response.body[n]
              IN  /\ out.iso_code = rec.iso_code
                  /\ out.iso2_code = rec.iso2_code
                  /\ out.name = rec.name
                  /\ DOMAIN out.indicator = NonNullKeys(rec) \cap MapIndicators
                  /\ \A k \in DOMAIN out.indicator : out.indicator[k] = rec.indicator[k]

\* the map answered from a record that has a number under a copied code and a number
\* under another code
C14_Witness ==
    /\ Reduced
    /\ \E n \in 1..Len(data.records) :
          /\ NonNullKeys(data.records[n]) \cap MapIndicators # {}
          /\ NonNullKeys(data.records[n]) \ MapIndicators # {}
          /\ DOMAIN response.body[n].indicator # {}

(***************************************************************************)
(* Properties of the three map endpoints (ViewSpec)                        *)
(***************************************************************************)
\* a map request was served on the route
Served(route) == response.route = route
MapRoutes == {"/country_info/map", "/country_info/map/valid", "/country_info/map/regions"}
\* a table of the reducer's query does not exist
MissingTable == ~({"countries", "country_data"} \subseteq tables)

\* C11: when the countries table or the country_data table does not exist,
\* get_db_countries returns an empty sequence, and each of the three map endpoints
\* answers with an empty array and a non-error status.
C11_MissingTablesGiveEmpty ==
    \A route \in MapRoutes :
        (Served(route) /\ MissingTable)
            => /\ ~data.raised
               /\ data.records = <<>>
               /\ response.status = 200
               /\ ~response.error
               /\ response.body = <<>>

\* the reducer of src/api_utils_1.py does what C11 says of the reducer
C11_WithTableCheck ==
    MissingTable =>
        \A ord \in RowOrders(countries) :
            get_db_countries_1(ord) = [raised |-> FALSE, records |-> <<>>]

\* C12: no record returned by GET /country_info/map/valid has a name that equals
\* "world" case-insensitively, and the primary code of every returned record is in
\* valid_iso3_codes.
C12_ValidViewFiltered ==
    Served("/country_info/map/valid") =>
        \A n \in 1..Len(response.body) :
            /\ Lower(response.body[n].name) # "world"
            /\ response.body[n].iso_code \in valid_iso3_codes

\* the valid view returned a record and left out a record named World
C12_Witness ==
    /\ Served("/country_info/map/valid")
    /\ Len(response.body) > 0
    /\ \E m \in 1..Len(data.records) :
          /\ data.records[m].name = "World"
          /\ \A n \in 1..Len(response.body) :
                response.body[n].iso_code # data.records[m].iso_code

\* C13: every record returned by GET /country_info/map/regions has a primary code in
\* geo_regions, and every record of the reducer with such a code is returned.
C13_RegionsViewExact ==
    (Served("/country_info/map/regions") /\ ~response.error) =>
        /\ \A n \in 1..Len(response.body) : response.body[n].iso_code \in geo_regions
        /\ \A m \in 1..Len(data.records) :
              data.records[m].iso_code \in geo_regions =>
                  \E n \in 1..Len(response.body) :
                      response.body[n] = FormatEntry(data.records[m])

\* the regions view returned a region and left out a country
C13_Witness ==
    /\ Served("/country_info/map/regions")
    /\ \E n \in 1..Len(response.body) : response.body[n].iso_code = "EAS"
    /\ \E m \in 1..Len(data.records) : data.records[m].iso_code = "VNM"

\* the records of the reducer the view of a route keeps
KeptBy(route, rec) ==
    CASE route = "/country_info/map/valid" -> IsValidCountry(rec)
      [] route = "/country_info/map/regions" -> IsRegion(rec)
      [] OTHER -> TRUE

\* C22: no record returned by one of the three map endpoints has an indicator entry
\* whose value is null, and a record of the reducer whose values are all missing is
\* returned by every view that keeps it, with an empty indicator mapping.
C22_NoNullEntryEmptyKept ==
    \A route \in MapRoutes :
        (Served(route) /\ ~response.error) =>
            /\ \A n \in 1..Len(response.body) :
                  \A k \in DOMAIN response.body[n].indicator :
                      response.body[n].indicator[k] # NULL
            /\ \A m \in 1..Len(data.records) :
                  (NonNullKeys(data.records[m]) = {} /\ KeptBy(route, data.records[m])) =>
                      \E n \in 1..Len(response.body) :
                          /\ response.body[n].iso_code = data.records[m].iso_code
                          /\ response.body[n].iso2_code = data.records[m].iso2_code
                          /\ response.body[n].name = data.records[m].name
                          /\ DOMAIN response.body[n].indicator = {}

\* a filtered view returned a record whose only entry, under a code the handlers
\* copy, was None in the output of the reducer
C22_Witness ==
    /\ Served("/country_info/map/valid")
    /\ \E m \in 1..Len(data.records) :
          /\ DOMAIN data.records[m].indicator \cap MapIndicators # {}
          /\ NonNullKeys(data.records[m]) = {}
          /\ \E n \in 1..Len(response.body) :
                /\ response.body[n].iso_code = data.records[m].iso_code
                /\ DOMAIN response.body[n].indicator = {}

(***************************************************************************)
(* GET /countries_info/<country_code> (src/api_server.py): cache-aside     *)
(* lookup over country_details                                             *)
(*                                                                         *)
(* A Python dict is [dict |-> f], a Python list is [list |-> s]; the raw   *)
(* country object of the external source and its "name" object are plain   *)
(* functions.  Messages are written without diacritics.                    *)
(***************************************************************************)
MaxReqs == 2

Reqs == 1..MaxReqs

PyDict(f) == [dict |-> f]
PyList(s) == [list |-> s]
\* a Python int and a Python float of value n; == compares the values
PyInt(n) == [num |-> n, float |-> FALSE]
PyFloat(n) == [num |-> n, float |-> TRUE]
NumEq(a, b) == a.num = b.num
Unset == [unset |-> TRUE]

\* the codes requests arrive with
RequestCodes == {"vnm", "USA", "wld"}

\* country_code.upper()
Upper(s) ==
    CASE s = "vnm" -> "VNM"
      [] s = "wld" -> "WLD"
      [] OTHER -> s

\* country objects the external source answers with
RawVNM ==
    [cca3 |-> "VNM",
     name |-> [common |-> "Vietnam", official |-> "Socialist Republic of Vietnam"],
     currencies |-> PyDict([VND |-> [name |-> "Vietnamese dong", symbol |-> "d"]]),
     capital |-> PyList(<<"Hanoi">>),
     region |-> "Asia",
     subregion |-> "South-Eastern Asia",
     languages |-> PyDict([vie |-> "Vietnamese"]),
     borders |-> PyList(<<"KHM", "CHN", "LAO">>),
     area |-> PyFloat(331212),
     population |-> PyInt(97338579),
     latlng |-> PyList(<<PyFloat(16), PyFloat(107)>>),
     timezones |-> PyList(<<"UTC+07:00">>)]
\* the same country after the source updated its population
RawVNMLater == [RawVNM EXCEPT !.population = PyInt(98186856)]
\* an object with few fields: the .get defaults apply; its coordinates are written
\* without a fraction and its list of time zones is empty
RawUSA ==
    [cca3 |-> "USA",
     name |-> [common |-> "United States", official |-> "United States of America"],
     capital |-> PyList(<<"Washington, D.C.">>),
     region |-> "Americas",
     population |-> PyInt(329484123),
     latlng |-> PyList(<<PyInt(38), PyInt(-97)>>),
     timezones |-> PyList(<<>>)]
\* an object without cca3
RawNoCode ==
    [name |-> [common |-> "Vietnam", official |-> "Socialist Republic of Vietnam"],
     capital |-> PyList(<<"Hanoi">>),
     region |-> "Asia"]
\* an object whose capital list is empty
RawNoCapital ==
    [cca3 |-> "VNM",
     name |-> [common |-> "Vietnam", official |-> "Socialist Republic of Vietnam"],
     capital |-> PyList(<<>>)]

RawCountries == {RawVNM, RawVNMLater, RawUSA, RawNoCode, RawNoCapital}

\* what requests.get(url) does: raise, or answer with a status and a JSON body
ExtResponses ==
    {[kind |-> "raise", status |-> 0, body |-> <<>>],
     [kind |-> "http", status |-> 404, body |-> <<>>],
     [kind |-> "http", status |-> 200, body |-> <<>>]}
    \cup {[kind |-> "http", status |-> 200, body |-> <<c>>] : c \in RawCountries}

\* country.get(key, default)
Get(obj, k, d) == IF k \in DOMAIN obj THEN obj[k] ELSE d

\* get_country_info_api (src/api_utils.py)
get_country_info_api(ext) ==
    IF ext.kind = "raise" THEN [error |-> "Loi: exception"]
    ELSE IF ext.status # 200 THEN [error |-> "Loi API: status"]
    ELSE IF Len(ext.body) = 0 THEN [error |-> "Khong co du lieu"]
    ELSE LET country == ext.body[1]
             name == Get(country, "name", <<>>)
             capital == Get(country, "capital", PyList(<<"N/A">>))
             latlng == Get(country, "latlng", PyList(<<PyFloat(0), PyFloat(0)>>))
         IN  IF Len(capital.list) < 1 \/ Len(latlng.list) < 2
             THEN [error |-> "Loi: list index out of range"]
             ELSE [code |-> Get(country, "cca3", "N/A"),
                   common |-> Get(name, "common", "N/A"),
                   official |-> Get(name, "official", "N/A"),
                   currencies |-> Get(country, "currencies", PyDict(<<>>)),
                   capital |-> capital.list[1],
                   region |-> Get(country, "region", "N/A"),
                   subregion |-> Get(country, "subregion", "N/A"),
                   languages |-> Get(country, "languages", PyDict(<<>>)),
                   borders |-> Get(country, "borders", PyList(<<>>)),
                   area |-> Get(country, "area", PyFloat(0)),
                   income_level |-> "N/A",
                   latitude |-> latlng.list[1],
                   longitude |-> latlng.list[2],
                   population |-> Get(country, "population", PyInt(0)),
                   timezones |-> Get(country, "timezones", PyList(<<"N/A">>))]

\* "error" not in country_data
IsError(d) == "error" \in DOMAIN d

\* json.dumps / json.loads on the values the model stores
JsonTexts ==
    <<<<PyDict(<<>>), "{}">>,
      <<PyList(<<>>), "[]">>,
      <<PyDict([VND |-> [name |-> "Vietnamese dong", symbol |-> "d"]]),
        "{\"VND\": {\"name\": \"Vietnamese dong\", \"symbol\": \"d\"}}">>,
      <<PyDict([vie |-> "Vietnamese"]), "{\"vie\": \"Vietnamese\"}">>,
      <<PyList(<<"KHM", "CHN", "LAO">>), "[\"KHM\", \"CHN\", \"LAO\"]">>,
      <<PyList(<<"UTC+07:00">>), "[\"UTC+07:00\"]">>,
      <<PyList(<<"N/A">>), "[\"N/A\"]">>>>
JsonDumps(v) == JsonTexts[CHOOSE i \in 1..Len(JsonTexts) : JsonTexts[i][1] = v][2]
\* JsonLoads as a reader that takes every empty container for a dict
JsonLoadsEmptyAsDict(t) ==
    IF t = "[]" THEN PyDict(<<>>)
    ELSE JsonTexts[CHOOSE i \in 1..Len(JsonTexts) : JsonTexts[i][2] = t][1]
JsonLoads(t) == JsonTexts[CHOOSE i \in 1..Len(JsonTexts) : JsonTexts[i][2] = t][1]

\* column affinity of country_details: a number stored in a REAL column is read back
\* as a float, one stored in an INTEGER column as an int when it is whole (the model
\* has whole numbers only)
ToReal(v) == [v EXCEPT !.float = TRUE]
ToInteger(v) == [v EXCEPT !.float = FALSE]

\* the row save_country_to_db writes for country_data, under the id the store gives it
RowOf(d, id) ==
    [id |-> id,
     code |-> d.code,
     common |-> d.common,
     official |-> d.official,
     currencies |-> JsonDumps(d.currencies),
     capital |-> d.capital,
     region |-> d.region,
     subregion |-> d.subregion,
     languages |-> JsonDumps(d.languages),
     borders |-> JsonDumps(d.borders),
     area |-> ToReal(d.area),
     income_level |-> d.income_level,
     latitude |-> ToReal(d.latitude),
     longitude |-> ToReal(d.longitude),
     population |-> ToInteger(d.population),
     timezones |-> JsonDumps(d.timezones)]

\* the country_data dict get_country_info builds from a row it found
RowToDetail(row) ==
    [code |-> row.code,
     common |-> row.common,
     official |-> row.official,
     currencies |-> IF row.currencies # "" THEN JsonLoads(row.currencies) ELSE PyDict(<<>>),
     capital |-> row.capital,
     region |-> row.region,
     subregion |-> row.subregion,
     languages |-> IF row.languages # "" THEN JsonLoads(row.languages) ELSE PyDict(<<>>),
     borders |-> IF row.borders # "" THEN JsonLoads(row.borders) ELSE PyList(<<>>),
     area |-> row.area,
     income_level |-> row.income_level,
     latitude |-> row.latitude,
     longitude |-> row.longitude,
     population |-> row.population,
     timezones |-> IF row.timezones # "" THEN JsonLoads(row.timezones) ELSE PyList(<<>>)]

\* INSERT keeping the rows already there, also one of the same code
InsertKeep(T, d, id) == T \cup {RowOf(d, id)}

\* INSERT OR REPLACE INTO country_details: code is UNIQUE, the row in conflict is
\* deleted and the new row gets a fresh id
InsertOrReplace(T, d, id) == {row \in T : row.code # d.code} \cup {RowOf(d, id)}

\* SELECT ... FROM country_details WHERE code = ? ; fetchone()
SelectByCode(T, code) == {row \in T : row.code = code}

IdleReq ==
    [pc |-> "idle", raw |-> "", code |-> "", row |-> Unset, ext |-> Unset, api |-> Unset,
     ext_calls |-> 0, reads |-> 0, writes |-> 0, store_errors |-> 0, resp |-> Unset]

Respond(status, body) == [status |-> status, body |-> body]

\* validate as a handler that does not check the allow-list
get_country_info_unchecked(r, raw) ==
    /\ reqs[r].pc = "idle"
    /\ reqs' = [reqs EXCEPT ![r] = [@ EXCEPT !.pc = "select", !.raw = raw, !.code = Upper(raw)]]
    /\ UNCHANGED <<country_details, next_id>>
    /\ UNCHANGED <<mapVars, open_conns, ingest>>

\* lines 43-48: the request arrives; upper-case the code, check the allow-list
get_country_info_validate(r, raw) ==
    /\ reqs[r].pc = "idle"
    /\ LET country_code == Upper(raw)
       IN  reqs' = [reqs EXCEPT ![r] =
                IF country_code \notin valid_iso3_codes
                THEN [@ EXCEPT !.pc = "done", !.raw = raw, !.code = country_code,
                               !.resp = Respond(400, [error |-> "Invalid ISO3 code"])]
                ELSE [@ EXCEPT !.pc = "select", !.raw = raw, !.code = country_code]]
    /\ UNCHANGED <<country_details, next_id>>
    /\ UNCHANGED <<mapVars, open_conns, ingest>>

\* select as a handler that never finds the row
get_country_info_select_nocache(r) ==
    /\ reqs[r].pc = "select"
    /\ reqs' = [reqs EXCEPT ![r] =
            IF "country_details" \notin tables
            THEN [@ EXCEPT !.pc = "done", !.reads = @ + 1, !.store_errors = @ + 1,
                           !.resp = Respond(500, [error |-> "Server error"])]
            ELSE [@ EXCEPT !.pc = "api", !.reads = @ + 1]]
    /\ open_conns' \in (IF "country_details" \notin tables THEN Unclosed(open_conns)
                        ELSE {open_conns})
    /\ UNCHANGED <<country_details, next_id>>
    /\ UNCHANGED <<mapVars, ingest>>

\* select as a handler that writes the row it found back to country_details
get_country_info_select_refresh(r) ==
    /\ reqs[r].pc = "select"
    /\ LET found == SelectByCode(country_details, reqs[r].code)
       IN  /\ reqs' = [reqs EXCEPT ![r] =
                  IF "country_details" \notin tables
                  THEN [@ EXCEPT !.pc = "done", !.reads = @ + 1, !.store_errors = @ + 1,
                                 !.resp = Respond(500, [error |-> "Server error"])]
                  ELSE IF found # {}
                  THEN LET row == CHOOSE x \in found : TRUE
                       IN  [@ EXCEPT !.pc = "done", !.reads = @ + 1, !.row = row,
                                     !.resp = Respond(200, RowToDetail(row))]
                  ELSE [@ EXCEPT !.pc = "api", !.reads = @ + 1]]
           /\ IF "country_details" \in tables /\ found # {}
              THEN /\ country_details' =
                          InsertOrReplace(country_details,
                                          RowToDetail(CHOOSE x \in found : TRUE), next_id)
                   /\ next_id' = next_id + 1
              ELSE UNCHANGED <<country_details, next_id>>
    /\ open_conns' \in (IF "country_details" \notin tables THEN Unclosed(open_conns)
                        ELSE {open_conns})
    /\ UNCHANGED <<mapVars, ingest>>

\* lines 50-88: open a connection and look the code up in country_details; answer
\* from the row when there is one; a missing table raises and is answered by the
\* except clause, which does not close the connection (the hit and the miss close it,
\* lines 84 and 88)
get_country_info_select(r) ==
    /\ reqs[r].pc = "select"
    /\ LET found == SelectByCode(country_details, reqs[r].code)
       IN  reqs' = [reqs EXCEPT ![r] =
                IF "country_details" \notin tables
                THEN [@ EXCEPT !.pc = "done", !.reads = @ + 1, !.store_errors = @ + 1,
                               !.resp = Respond(500, [error |-> "Server error"])]
                ELSE IF found # {}
                THEN LET row == CHOOSE x \in found : TRUE
                     IN  [@ EXCEPT !.pc = "done", !.reads = @ + 1, !.row = row,
                                   !.resp = Respond(200, RowToDetail(row))]
                ELSE [@ EXCEPT !.pc = "api", !.reads = @ + 1]]
    /\ open_conns' \in (IF "country_details" \notin tables THEN Unclosed(open_conns)
                        ELSE {open_conns})
    /\ UNCHANGED <<country_details, next_id>>
    /\ UNCHANGED <<mapVars, ingest>>

\* fetch as a handler that calls the source again when the first call failed
get_country_info_fetch_retry(r, ext) ==
    /\ reqs[r].pc = "api"
    /\ LET country_data_ == get_country_info_api(ext)
       IN  reqs' = [reqs EXCEPT ![r] =
                IF IsError(country_data_)
                THEN [@ EXCEPT !.pc = "done", !.ext = ext, !.api = country_data_, !.ext_calls = @ + 2,
                               !.resp = Respond(200, country_data_)]
                ELSE [@ EXCEPT !.pc = "save", !.ext = ext, !.api = country_data_, !.ext_calls = @ + 1]]
    /\ UNCHANGED <<country_details, next_id>>
    /\ UNCHANGED <<mapVars, open_conns, ingest>>

\* lines 89-95: one call of get_country_info_api; an error payload is returned as it is
get_country_info_fetch(r, ext) ==
    /\ reqs[r].pc = "api"
    /\ LET country_data_ == get_country_info_api(ext)
       IN  reqs' = [reqs EXCEPT ![r] =
                IF IsError(country_data_)
                THEN [@ EXCEPT !.pc = "done", !.ext = ext, !.api = country_data_, !.ext_calls = @ + 1,
                               !.resp = Respond(200, country_data_)]
                ELSE [@ EXCEPT !.pc = "save", !.ext = ext, !.api = country_data_, !.ext_calls = @ + 1]]
    /\ UNCHANGED <<country_details, next_id>>
    /\ UNCHANGED <<mapVars, open_conns, ingest>>

\* what the store does with the statement a request executes: run it, or raise
\* sqlite3.Error (database is locked, disk I/O error)
StoreOutcomes == {"ok", "error"}

\* save_country_to_db returns True
Saved(st) == "country_details" \in tables /\ st = "ok"

\* save_country_to_db (lines 416-451): the upsert and its commit are one transaction,
\* then the connection is closed; a store error is caught and answered with False,
\* and the except clause does not close the connection
save_country_to_db(d, st) ==
    IF Saved(st)
    THEN /\ country_details' = InsertOrReplace(country_details, d, next_id)
         /\ next_id' = next_id + 1
         /\ open_conns' = open_conns
    ELSE /\ UNCHANGED <<country_details, next_id>>
         /\ open_conns' \in Unclosed(open_conns)

\* lines 91-95: save the fetched detail, then answer with it, whatever
\* save_country_to_db returned
get_country_info_save(r, st) ==
    /\ reqs[r].pc = "save"
    /\ save_country_to_db(reqs[r].api, st)
    /\ reqs' = [reqs EXCEPT ![r] =
            [@ EXCEPT !.pc = "done",
                      !.writes = @ + (IF Saved(st) THEN 1 ELSE 0),
                      !.store_errors = @ + (IF Saved(st) THEN 0 ELSE 1),
                      !.resp = Respond(200, reqs[r].api)]]
    /\ UNCHANGED <<mapVars, ingest>>

Init ==
    /\ tables \in {{"country_details"}, {}}
    /\ countries = {}
    /\ country_data = <<>>
    /\ data = NoData
    /\ response = NoResponse
    /\ country_details = {}
    /\ next_id = 1
    /\ reqs = [r \in Reqs |-> IdleReq]
    /\ open_conns = 0
    /\ ingest = NoIngest

Next ==
    \E r \in Reqs :
        \/ \E raw \in RequestCodes : get_country_info_validate(r, raw)
        \/ get_country_info_select(r)
        \/ \E ext \in ExtResponses : get_country_info_fetch(r, ext)
        \/ \E st \in StoreOutcomes : get_country_info_save(r, st)

Spec == Init /\ [][Next]_vars

(***************************************************************************)
(* Properties of the cache-aside lookup (Spec)                             *)
(***************************************************************************)
\* request r read country_details and found no row
Missed(r) == reqs[r].reads = 1 /\ reqs[r].row = Unset /\ reqs[r].resp # Respond(500, [error |-> "Server error"])
\* request r called the external source and got a Country Detail
Fetched(r) == reqs[r].api # Unset /\ ~IsError(reqs[r].api)
\* the external call of request r failed: exception, non-200 status or empty body
ExtFailed(e) == e.kind = "raise" \/ e.status # 200 \/ Len(e.body) = 0

\* two Country Details are equal field by field, numbers compared by value
SameDetail(a, b) ==
    /\ a.code = b.code /\ a.common = b.common /\ a.official = b.official
    /\ a.currencies = b.currencies /\ a.capital = b.capital /\ a.region = b.region
    /\ a.subregion = b.subregion /\ a.languages = b.languages /\ a.borders = b.borders
    /\ NumEq(a.area, b.area) /\ a.income_level = b.income_level
    /\ NumEq(a.latitude, b.latitude) /\ NumEq(a.longitude, b.longitude)
    /\ NumEq(a.population, b.population) /\ a.timezones = b.timezones

\* C5: a request for a valid code that has a row in country_details is answered with
\* status 200 and that row's record, which is the detail an earlier request saved, and
\* makes no external call and no write.
C5_CacheHitNoExternalCall ==
    [][\A r \in Reqs :
          (/\ reqs[r].pc = "select"
           /\ reqs'[r].pc # "select"
           /\ SelectByCode(country_details, reqs[r].code) # {})
          => /\ reqs'[r].pc = "done"
             /\ reqs'[r].resp.status = 200
             /\ \E row \in country_details :
                   /\ row.code = reqs[r].code
                   /\ reqs'[r].resp.body = RowToDetail(row)
             /\ \E w \in Reqs \ {r} :
                   /\ reqs[w].writes = 1
                   /\ SameDetail(reqs'[r].resp.body, reqs[w].api)
             /\ reqs'[r].ext_calls = 0
             /\ reqs'[r].writes = 0
             /\ country_details' = country_details]_vars

\* a request was answered from the cache
C5_Witness ==
    \E r \in Reqs : reqs[r].pc = "done" /\ reqs[r].row # Unset /\ reqs[r].ext_calls = 0

\* C6: once a request for valid code c has missed the cache, got a Country Detail from
\* the external source and been answered, country_details holds a row keyed by c.
C6_MissThenCached ==
    \A r \in Reqs :
        (reqs[r].pc = "done" /\ Missed(r) /\ Fetched(r))
            => SelectByCode(country_details, reqs[r].code) # {}

\* C7: a request whose upper-cased code is not in valid_iso3_codes is answered with
\* status 400 and an error payload, with no external call and no store read or write.
C7_InvalidCodeRejected ==
    \A r \in Reqs :
        (reqs[r].pc # "idle" /\ Upper(reqs[r].raw) \notin valid_iso3_codes)
            => /\ reqs[r].pc = "done"
               /\ reqs[r].resp.status = 400
               /\ IsError(reqs[r].resp.body)
               /\ reqs[r].ext_calls = 0
               /\ reqs[r].reads = 0
               /\ reqs[r].writes = 0
               /\ reqs[r].row = Unset
               /\ reqs[r].api = Unset

\* a request with an unrecognized code was answered
C7_Witness ==
    \E r \in Reqs : reqs[r].pc = "done" /\ reqs[r].raw = "wld" /\ reqs[r].resp.status = 400

\* C8: when the external call of a request that missed the cache fails, the request
\* has made exactly one external call, is answered with the error payload, and
\* country_details is left as it was.
C8_ExternalFailureNotRetried ==
    [][\A r \in Reqs :
          (/\ reqs[r].pc = "api"
           /\ reqs'[r].pc # "api"
           /\ ExtFailed(reqs'[r].ext))
          => /\ reqs'[r].pc = "done"
             /\ reqs'[r].ext_calls = 1
             /\ reqs'[r].resp.status = 200
             /\ IsError(reqs'[r].resp.body)
             /\ reqs'[r].resp.body = reqs'[r].api
             /\ reqs'[r].writes = 0
             /\ country_details' = country_details]_vars

\* a request was answered after its external call failed
C8_Witness ==
    \E r \in Reqs :
        /\ reqs[r].pc = "done"
        /\ reqs[r].ext # Unset
        /\ ExtFailed(reqs[r].ext)
        /\ IsError(reqs[r].resp.body)

\* C9: every upsert of save_country_to_db leaves exactly one row of the saved code,
\* holding the fields of that (the last) save, and leaves the rows of the other codes
\* as they were.
C9_UpsertOneRowPerCode ==
    [][\A r \in Reqs :
          (reqs[r].pc = "save" /\ reqs'[r].pc = "done" /\ reqs'[r].writes = 1)
          => LET d == reqs[r].api
             IN  /\ Cardinality(SelectByCode(country_details', d.code)) = 1
                 /\ \A row \in SelectByCode(country_details', d.code) :
                        row = RowOf(d, row.id)
                 /\ \A row \in country_details \cup country_details' :
                        row.code # d.code =>
                            (row \in country_details <=> row \in country_details')]_vars

\* two different details were saved for one code, and the code has one row
C9_Witness ==
    \E r, w \in Reqs :
        /\ r # w
        /\ reqs[r].writes = 1 /\ reqs[w].writes = 1
        /\ reqs[r].api.code = reqs[w].api.code
        /\ reqs[r].api # reqs[w].api
        /\ Cardinality(SelectByCode(country_details, reqs[r].api.code)) = 1

\* the requests for code c that missed the cache, fetched a detail and saved it
MissedAndSaved(c) ==
    {r \in Reqs : reqs[r].code = c /\ reqs[r].pc = "done" /\ Missed(r) /\ reqs[r].writes = 1}

ConcurrentMissesSafe(c) ==
    Cardinality(MissedAndSaved(c)) >= 2
        => /\ Cardinality(SelectByCode(country_details, c)) = 1
           /\ \A row \in SelectByCode(country_details, c) :
                 \E r \in MissedAndSaved(c) : row = RowOf(reqs[r].api, row.id)
           /\ \A r \in MissedAndSaved(c) :
                 reqs[r].resp = Respond(200, reqs[r].api) /\ ~IsError(reqs[r].resp.body)

\* C10: when two or more requests for the same uncached valid code have each missed,
\* fetched and saved, in any interleaving, country_details holds exactly one row for
\* that code, equal to the detail one of them fetched, and each of them was answered
\* with a Country Detail.
C10_ConcurrentMissesOneRow ==
    \A c \in {Upper(raw) : raw \in RequestCodes} \cap valid_iso3_codes : ConcurrentMissesSafe(c)

\* C10 holds in the behaviours where every fetched detail carries the requested code
C10_WhenCodesMatch ==
    (\A r \in Reqs : Fetched(r) => reqs[r].api.code = reqs[r].code)
        => C10_ConcurrentMissesOneRow

\* C15: every answered request whose body is an error payload carries status 400 or
\* 500, and every answered request with status 200 carries a Country Detail.
C15_ErrorPayloadHasErrorStatus ==
    \A r \in Reqs :
        reqs[r].pc = "done" =>
            /\ IsError(reqs[r].resp.body) => reqs[r].resp.status \in {400, 500}
            /\ reqs[r].resp.status = 200 => ~IsError(reqs[r].resp.body)

\* C16: a request during which a store operation raised is answered with status 500
\* and an error payload.
C16_FailureAnswered500 ==
    \A r \in Reqs :
        (reqs[r].pc = "done" /\ reqs[r].store_errors > 0)
            => reqs[r].resp.status = 500 /\ IsError(reqs[r].resp.body)

\* what holds of C16 in get_country_info: a failure of the handler's own read is
\* answered with status 500 and an error payload
C16_ReadFailureAnswered500 ==
    \A r \in Reqs :
        (reqs[r].pc = "done" /\ reqs[r].store_errors > 0 /\ reqs[r].api = Unset)
            => reqs[r].resp.status = 500 /\ IsError(reqs[r].resp.body)

\* C17: whenever no request is in progress, no store connection is open.
C17_NoConnectionLeftOpen ==
    (\A r \in Reqs : reqs[r].pc \in {"idle", "done"}) => open_conns = 0

\* the request was answered from a row of country_details
CacheHit(r) == reqs[r].pc = "done" /\ reqs[r].row # Unset

\* C23: a cache hit returns a record equal in all 15 fields to the Country Detail whose
\* save wrote the row it read, a detail that an external lookup returned for the
\* code; and every detail an external lookup returns comes back equal from the row
\* save_country_to_db writes for it, empty maps and empty lists included.
C23_CacheRoundTrip ==
    /\ \A r \in Reqs :
          CacheHit(r) =>
              \E w \in Reqs :
                  /\ reqs[w].writes = 1
                  /\ reqs[w].api.code = reqs[r].code
                  /\ reqs[r].row = RowOf(reqs[w].api, reqs[r].row.id)
                  /\ SameDetail(reqs[r].resp.body, reqs[w].api)
    /\ \A r \in Reqs :
          Fetched(r) => SameDetail(RowToDetail(RowOf(reqs[r].api, next_id)), reqs[r].api)

\* a cache hit returned a detail whose currencies and languages are empty maps, whose
\* borders and timezones are empty lists, and whose coordinates were stored from ints
C23_Witness ==
    \E r, w \in Reqs :
        /\ CacheHit(r)
        /\ reqs[w].writes = 1
        /\ reqs[w].api.code = reqs[r].code
        /\ reqs[w].api.currencies = PyDict(<<>>) /\ reqs[w].api.languages = PyDict(<<>>)
        /\ reqs[w].api.borders = PyList(<<>>) /\ reqs[w].api.timezones = PyList(<<>>)
        /\ ~reqs[w].api.latitude.float
        /\ reqs[r].resp.body.timezones = PyList(<<>>)

(***************************************************************************)
(* The server's requests together (ServerSpec): the country lookups, the   *)
(* three map endpoints and /health over one store.  No handler of          *)
(* src/api_server.py names the indicators table, which the model leaves    *)
(* out.                                                                    *)
(***************************************************************************)
\* GET /health
health_check ==
    /\ response = NoResponse
    /\ response' = [route |-> "/health", status |-> 200, error |-> FALSE,
                    body |-> [status |-> "healthy", message |-> "API server is running"]]
    /\ UNCHANGED <<tables, countries, country_data, data, open_conns>>
    /\ UNCHANGED <<infoVars, ingest>>

\* the store the server is started on: the three tables with a country and an
\* observation of it, or no table at all
ServerInit ==
    /\ tables \in {{"country_details", "countries", "country_data"}, {}}
    /\ countries = (IF tables = {} THEN {}
                    ELSE {[iso_code |-> "VNM", iso2_code |-> "VN", name |-> "Viet Nam"]})
    /\ country_data = (IF tables = {} THEN <<>>
                       ELSE [k \in {<<"VN", "SP.POP.TOTL", 2021>>} |-> Num(125)])
    /\ data = NoData
    /\ response = NoResponse
    /\ country_details = {}
    /\ next_id = 1
    /\ reqs = [r \in Reqs |-> IdleReq]
    /\ open_conns = 0
    /\ ingest = NoIngest

ServerNext ==
    \/ \E r \in Reqs, raw \in RequestCodes : get_country_info_validate(r, raw)
    \/ \E r \in Reqs : get_country_info_select(r)
    \/ \E r \in Reqs, ext \in ExtResponses : get_country_info_fetch(r, ext)
    \/ \E r \in Reqs, st \in StoreOutcomes : get_country_info_save(r, st)
    \/ get_country_map_data
    \/ get_valid_country_map_data
    \/ get_region_map_data
    \/ health_check

ServerSpec == ServerInit /\ [][ServerNext]_vars

\* C21: no step of a request changes the set of tables, countries or country_data, and
\* a step that changes country_details is the save of a lookup that missed the cache
\* and whose one external call gave a Country Detail; a map request and a health
\* request change none of them.
C21_OnlySavedMissWrites ==
    [][/\ tables' = tables
       /\ countries' = countries
       /\ country_data' = country_data
       /\ country_details' # country_details =>
             /\ response' = response
             /\ \E r \in Reqs :
                   /\ reqs[r].pc = "save" /\ reqs'[r].pc = "done"
                   /\ reqs[r].code \in valid_iso3_codes
                   /\ Missed(r) /\ Fetched(r)
                   /\ reqs[r].ext_calls = 1
                   /\ reqs'[r].writes = 1]_vars

\* a lookup saved a Country Detail, another lookup of the code was answered from the
\* row, and a map request was answered with a record, the tables it read being as
\* they were at the start
C21_Witness ==
    /\ \E r, h \in Reqs :
          /\ reqs[r].writes = 1
          /\ CacheHit(h)
          /\ country_details = {reqs[h].row}
    /\ response.route \in MapRoutes
    /\ ~response.error
    /\ Len(response.body) = 1
    /\ countries # {}
    /\ DOMAIN country_data # {}

(***************************************************************************)
(* Ingestion from the World Bank API (src/database.py)                     *)
(*                                                                         *)
(* The objects {"value": ...} under "region" and "incomeLevel" of a        *)
(* country of the answer are given by their value.                         *)
(* ingest.steps counts the ingestion steps taken, ingest.valid_iso3_codes  *)
(* is the module's list of that name, and ingest.written remembers, for    *)
(* each key of country_data that was written, the value of its most recent *)
(* write, the value of the write before it, the primary code of the        *)
(* country the write was fetched for, and whether an item without a value  *)
(* has arrived for the key since that write.                               *)
(***************************************************************************)
MaxSteps == 3

\* INDICATORS: the indicator codes ingestion fetches for every country
INDICATORS == <<"NY.GDP.MKTP.CD", "SP.POP.TOTL", "FP.CPI.TOTL.ZG", "SL.UEM.TOTL.ZS", "NY.GDP.PCAP.CD">>

\* country objects of the answer of /v2/country
WBVietNam ==
    [id |-> "VNM", iso2Code |-> "VN", name |-> "Viet Nam", region |-> "East Asia & Pacific",
     incomeLevel |-> "Lower middle income"]
\* one country under the primary code it had before and the one it has now
WBRomaniaOld ==
    [id |-> "ROM", iso2Code |-> "RO", name |-> "Romania", region |-> "Europe & Central Asia",
     incomeLevel |-> "Upper middle income"]
WBRomania ==
    [id |-> "ROU", iso2Code |-> "RO", name |-> "Romania", region |-> "Europe & Central Asia",
     incomeLevel |-> "High income"]
\* an aggregate
WBEastAsia ==
    [id |-> "EAS", iso2Code |-> "Z4", name |-> "East Asia & Pacific", region |-> "Aggregates",
     incomeLevel |-> "Aggregates"]
\* an object without "region": country["region"] raises KeyError
WBNoRegion == [id |-> "VNM", iso2Code |-> "VN", name |-> "Viet Nam", incomeLevel |-> "Lower middle income"]

WBCountries == {WBVietNam, WBRomaniaOld, WBRomania, WBEastAsia, WBNoRegion}

\* what requests.get(url) does for /v2/country: raise, or answer with a status and,
\* under status 200, a body that is the metadata alone or the metadata and a list
WBCountryResponses ==
    {[kind |-> "raise", status |-> 0, list |-> FALSE, items |-> <<>>],
     [kind |-> "http", status |-> 500, list |-> FALSE, items |-> <<>>],
     [kind |-> "http", status |-> 200, list |-> FALSE, items |-> <<>>]}
    \cup {[kind |-> "http", status |-> 200, list |-> TRUE, items |-> cs] :
             cs \in {<<>>} \cup {<<a>> : a \in WBCountries}
                          \cup {<<a, b>> : <<a, b>> \in WBCountries \X WBCountries}}

\* INSERT OR REPLACE INTO countries: iso_code is the PRIMARY KEY, the row in conflict
\* is deleted
InsertOrReplaceCountry(T, country) ==
    {row \in T : row.iso_code # country.id}
        \cup {[iso_code |-> country.id, iso2_code |-> country.iso2Code,
               name |-> country.name, region |-> country.region,
               income_level |-> country.incomeLevel]}

\* valid_iso3_codes.append(country["id"]) unless it is in the list
AppendCode(codes, id) ==
    IF \E n \in 1..Len(codes) : codes[n] = id THEN codes ELSE Append(codes, id)

\* the loop of fetch_worldbank_countries from item i on: the table and the list it
\* ends with, and whether an item raised
RECURSIVE StoreCountries(_, _, _, _)
StoreCountries(T, codes, cs, i) ==
    IF i > Len(cs) THEN [raised |-> FALSE, table |-> T, codes |-> codes]
    ELSE IF "region" \notin DOMAIN cs[i] THEN [raised |-> TRUE, table |-> T, codes |-> codes]
    ELSE IF cs[i].region # "Aggregates"
    THEN StoreCountries(InsertOrReplaceCountry(T, cs[i]), AppendCode(codes, cs[i].id), cs, i + 1)
    ELSE StoreCountries(T, codes, cs, i + 1)

\* fetch_worldbank_countries: the inserts are committed together after the loop; when
\* an item raises, nothing is committed and the connection is not closed, while the
\* codes appended to the list so far stay
fetch_worldbank_countries(resp) ==
    /\ ingest.steps < MaxSteps
    /\ IF resp.kind = "http" /\ resp.status = 200 /\ resp.list
       THEN LET done == StoreCountries(countries, ingest.valid_iso3_codes, resp.items, 1)
            IN  /\ countries' = IF done.raised THEN countries ELSE done.table
                /\ ingest' = [ingest EXCEPT !.steps = @ + 1, !.valid_iso3_codes = done.codes]
                /\ open_conns' \in (IF done.raised THEN Unclosed(open_conns) ELSE {open_conns})
       ELSE /\ ingest' = [ingest EXCEPT !.steps = @ + 1]
            /\ UNCHANGED <<countries, open_conns>>
    /\ UNCHANGED <<tables, country_data, data, response>>
    /\ UNCHANGED infoVars

\* the year column has INTEGER affinity: the text of item["date"] is stored as a number
YearOf(date) ==
    CASE date = "2020" -> 2020
      [] date = "2021" -> 2021

\* items of the answer of /v2/country/<code>/indicator/<code>
Item(date, value) == [date |-> date, value |-> value]
\* an item without "date": item["date"] raises KeyError
ItemNoDate == [value |-> Num(98250)]

IndicatorItems ==
    {<<>>,
     <<Item("2021", Num(125))>>,
     <<Item("2021", Num(98250))>>,
     <<Item("2020", Num(125))>>,
     <<Item("2021", NULL)>>,
     <<Item("2020", Num(125)), Item("2021", NULL)>>,
     <<Item("2021", Num(98250)), Item("2020", Num(125))>>,
     <<Item("2021", Num(125)), Item("2021", Num(98250))>>,
     <<Item("2020", Num(98250)), ItemNoDate>>}

WBIndicatorResponses ==
    {[kind |-> "raise", status |-> 0, list |-> FALSE, items |-> <<>>],
     [kind |-> "http", status |-> 404, list |-> FALSE, items |-> <<>>],
     [kind |-> "http", status |-> 200, list |-> FALSE, items |-> <<>>]}
    \cup {[kind |-> "http", status |-> 200, list |-> TRUE, items |-> its] : its \in IndicatorItems}

\* INSERT that leaves a row of the same key as it is
InsertOrIgnoreObs(T, key, v) ==
    [k \in DOMAIN T \cup {key} |-> IF k \in DOMAIN T THEN T[k] ELSE v]

\* INSERT OR REPLACE INTO country_data: (country_code, indicator_code, year) is the
\* PRIMARY KEY, the row in conflict is deleted
InsertOrReplaceObs(T, key, v) ==
    [k \in (DOMAIN T \ {key}) \cup {key} |-> IF k = key THEN v ELSE T[k]]

\* the record of the most recent write of a key
Remember(W, key, v, iso) ==
    [k \in DOMAIN W \cup {key} |->
        IF k = key
        THEN [value |-> v, iso_code |-> iso,
              prev |-> IF key \in DOMAIN W THEN W[key].value ELSE NULL,
              skipped |-> FALSE]
        ELSE W[k]]

\* the record of a key after an item without a value for it was passed over
Skip(W, key) ==
    [k \in DOMAIN W |-> IF k = key THEN [W[k] EXCEPT !.skipped = TRUE] ELSE W[k]]

\* a test that takes every item as one with a value
ValueIsNoneNever(item) == FALSE
\* item.get("value") is None
ValueIsNone(item) == "value" \notin DOMAIN item \/ item.value = NULL

\* the loop of fetch_single_indicator_data from item i on: the items with a value are
\* written in the order of the answer, until one raises
RECURSIVE StoreItems(_, _, _, _, _, _)
StoreItems(T, W, country_code, indicator_code, its, i) ==
    IF i > Len(its) THEN [table |-> T, written |-> W]
    ELSE IF ValueIsNone(its[i])
    THEN StoreItems(T,
                    IF "date" \in DOMAIN its[i]
                    THEN Skip(W, <<country_code, indicator_code, YearOf(its[i].date)>>)
                    ELSE W,
                    country_code, indicator_code, its, i + 1)
    ELSE IF "date" \notin DOMAIN its[i] THEN [table |-> T, written |-> W]
    ELSE LET key == <<country_code, indicator_code, YearOf(its[i].date)>>
         IN  StoreItems(InsertOrReplaceObs(T, key, its[i].value),
                        Remember(W, key, its[i].value, country_code),
                        country_code, indicator_code, its, i + 1)

\* one turn of the loops of fetch_worldbank_indicator_data: country_code is an iso_code
\* of "SELECT iso_code FROM countries", indicator_code a code of INDICATORS, and
\* fetch_single_indicator_data writes what the answer holds; the caller commits
fetch_single_indicator_data(country_code, indicator_code, resp) ==
    /\ ingest.steps < MaxSteps
    /\ country_code \in {row.iso_code : row \in countries}
    /\ IF resp.kind = "http" /\ resp.status = 200 /\ resp.list
       THEN LET done == StoreItems(country_data, ingest.written, country_code,
                                   indicator_code, resp.items, 1)
            IN  /\ country_data' = done.table
                /\ ingest' = [ingest EXCEPT !.steps = @ + 1, !.written = done.written]
       ELSE /\ ingest' = [ingest EXCEPT !.steps = @ + 1]
            /\ UNCHANGED country_data
    /\ UNCHANGED <<tables, countries, data, response, open_conns>>
    /\ UNCHANGED infoVars

\* init_database has created the tables, which are empty
IngestInit ==
    /\ tables = {"country_details", "countries", "country_data"}
    /\ countries = {}
    /\ country_data = <<>>
    /\ data = NoData
    /\ response = NoResponse
    /\ country_details = {}
    /\ next_id = 1
    /\ reqs = <<>>
    /\ open_conns = 0
    /\ ingest = NoIngest

IngestNext ==
    \/ \E resp \in WBCountryResponses : fetch_worldbank_countries(resp)
    \/ \E country_code \in {c.id : c \in WBCountries},
          indicator_code \in {INDICATORS[n] : n \in 1..Len(INDICATORS)},
          resp \in WBIndicatorResponses :
             fetch_single_indicator_data(country_code, indicator_code, resp)

IngestSpec == IngestInit /\ [][IngestNext]_vars

(***************************************************************************)
(* Properties of the ingestion (IngestSpec)                                *)
(***************************************************************************)
\* C18: country_data holds one row for each triple that was written and no other row,
\* and the value of the row is the value of the most recent write of the triple.
C18_LastWriteWins ==
    /\ DOMAIN country_data = DOMAIN ingest.written
    /\ \A k \in DOMAIN country_data : country_data[k] = ingest.written[k].value

\* a triple was written a second time with another value, and a triple of the same
\* country and indicator with another year was written as well
C18_Witness ==
    \E k, o \in DOMAIN country_data :
        /\ ingest.written[k].prev # NULL
        /\ ingest.written[k].prev # ingest.written[k].value
        /\ o[1] = k[1] /\ o[2] = k[2] /\ o[3] # k[3]

\* C19: every row ingestion wrote has the secondary code of the country it was fetched
\* for as its country_code, so that the join of the reducer matches it with that country.
C19_WrittenUnderSecondaryCode ==
    \A k \in DOMAIN ingest.written :
        \E c \in countries :
            /\ c.iso_code = ingest.written[k].iso_code
            /\ k[1] = c.iso2_code

\* no two rows of countries share a primary code
PrimaryCodesUnique(T) == \A a, b \in T : a.iso_code = b.iso_code => a = b
\* no two rows of countries share a secondary code
SecondaryCodesUnique(T) == \A a, b \in T : a.iso2_code = b.iso2_code => a = b
PrimaryCodes(T) == {row.iso_code : row \in T}

\* C20: after every ingestion step no two rows of countries share a primary code, no
\* two rows share a secondary code, and every primary code stored before the step is
\* still stored.
C20_CodesUniqueAndKept ==
    [][/\ PrimaryCodesUnique(countries')
       /\ SecondaryCodesUnique(countries')
       /\ PrimaryCodes(countries) \subseteq PrimaryCodes(countries')]_vars

\* what holds of C20: the primary codes are unique and are never removed
C20_PrimaryCodesUniqueAndKept ==
    [][/\ PrimaryCodesUnique(countries')
       /\ PrimaryCodes(countries) \subseteq PrimaryCodes(countries')]_vars

\* C24: every row of country_data has a value, and a row for whose triple an item
\* without a value arrived after it was written is still there with the value that
\* was written.
C24_NoMissingValueStored ==
    /\ \A k \in DOMAIN country_data : country_data[k] # NULL
    /\ \A k \in DOMAIN ingest.written :
          ingest.written[k].skipped =>
              /\ k \in DOMAIN country_data
              /\ country_data[k] = ingest.written[k].value

\* an item without a value arrived for a triple that has a row, in an answer that
\* held an item with a value for another year as well
C24_Witness ==
    \E k, o \in DOMAIN country_data :
        /\ ingest.written[k].skipped
        /\ country_data[k] # NULL
        /\ o[1] = k[1] /\ o[2] = k[2] /\ o[3] # k[3]

(***************************************************************************)
(* The batch pipeline main (src/database.py)                               *)
(*                                                                         *)
(* ingest.pc is the step main is at, ingest.started the steps it has       *)
(* started, in order, and ingest.returned what fetch_worldbank_countries   *)
(* returned.  ingest.todo holds the (country, indicator) pairs that        *)
(* fetch_worldbank_indicator_data has still to attempt, ingest.npairs the  *)
(* number of pairs of its loops, ingest.attempted the number of calls of   *)
(* fetch_single_indicator_data and ingest.failed_at the number of the      *)
(* first call that returned False.  ingest.existing_codes and              *)
(* ingest.codes_todo are the set and the rest of the list that             *)
(* fetch_restcountries_data loops with.                                    *)
(***************************************************************************)
MainSteps ==
    <<"init_database", "fetch_worldbank_countries", "fetch_worldbank_indicator_data",
      "fetch_restcountries_data", "check_database_status">>

\* the answers of /v2/country the pipeline is run with
MainCountryResponses ==
    {r \in WBCountryResponses :
        r.items \in {<<>>, <<WBVietNam>>, <<WBEastAsia, WBRomania>>,
                     <<WBVietNam, WBNoRegion>>, <<WBVietNam, WBRomania>>}}

\* the answers of /v2/country/<code>/indicator/<code> the pipeline is run with
MainIndicatorResponses ==
    {r \in WBIndicatorResponses :
        r.items \in {<<>>, <<Item("2021", Num(125))>>, <<Item("2021", NULL)>>}}

\* the answers of restcountries.com the pipeline is run with
MainExtResponses ==
    {r \in ExtResponses : r.body \in {<<>>, <<RawVNM>>, <<RawNoCapital>>}}

\* what fetch_worldbank_countries returns: True after the commit, False on a status
\* other than 200 and on an exception, and None (no return statement is reached)
\* on a status 200 whose body holds no list
ReturnOf(resp, raised) ==
    IF resp.kind = "raise" THEN "False"
    ELSE IF resp.status # 200 THEN "False"
    ELSE IF ~resp.list THEN "None"
    ELSE IF raised THEN "False"
    ELSE "True"

\* if fetch_worldbank_countries(): ... else: ... return
AfterCountries(ret) ==
    IF ret = "True" THEN "fetch_worldbank_indicator_data" ELSE "stopped"

\* the pairs of the two loops of fetch_worldbank_indicator_data, in the order of
\* the loops, for the rows in the order the SELECT gave them
Pairs(o) ==
    [n \in 1..(Len(o) * Len(INDICATORS)) |->
        <<o[((n - 1) \div Len(INDICATORS)) + 1].iso_code,
          INDICATORS[((n - 1) % Len(INDICATORS)) + 1]>>]

\* an item with a value and without "date" raises KeyError
RaisesOnItem(its) ==
    \E i \in 1..Len(its) : ~ValueIsNone(its[i]) /\ "date" \notin DOMAIN its[i]

\* what fetch_single_indicator_data returns
FetchOk(resp) ==
    resp.kind = "http" /\ resp.status = 200 /\ resp.list /\ ~RaisesOnItem(resp.items)

\* a loop that ends at the first call that returned False
AfterPairStopOnFailure(todo, ok) == IF ok THEN Tail(todo) ELSE <<>>
\* the loop goes on to the next pair whatever the call returned
AfterPair(todo, ok) == Tail(todo)

\* country_code[:2]
FirstTwo(code) ==
    CASE code = "VNM" -> "VN"
      [] code = "ROM" -> "RO"
      [] code = "ROU" -> "RO"
      [] code = "EAS" -> "EA"

\* get_income_level_from_wb: what fetchone() may give for
\* SELECT DISTINCT income_level FROM countries WHERE iso_code = ? OR iso2_code = ?
get_income_level_from_wb(T, code) ==
    LET rows == {row \in T : row.iso_code = code \/ row.iso2_code = FirstTwo(code)}
    IN  IF rows = {} THEN {"N/A"} ELSE {row.income_level : row \in rows}

\* get_country_info_from_api (src/database.py)
get_country_info_from_api(ext, income_level) ==
    IF ext.kind = "raise" THEN [error |-> "Exception"]
    ELSE IF ext.status # 200 THEN [error |-> "API error: status"]
    ELSE IF Len(ext.body) = 0 THEN [error |-> "No data available"]
    ELSE LET country == ext.body[1]
             name == Get(country, "name", <<>>)
             capital == Get(country, "capital", PyList(<<>>))
             latlng == Get(country, "latlng", PyList(<<>>))
         IN  IF Len(latlng.list) = 1
             THEN [error |-> "Exception: list index out of range"]
             ELSE [code |-> Get(country, "cca3", "N/A"),
                   common |-> Get(name, "common", "N/A"),
                   official |-> Get(name, "official", "N/A"),
                   currencies |-> Get(country, "currencies", PyDict(<<>>)),
                   capital |-> IF Len(capital.list) > 0 THEN capital.list[1] ELSE "N/A",
                   region |-> Get(country, "region", "N/A"),
                   subregion |-> Get(country, "subregion", "N/A"),
                   languages |-> Get(country, "languages", PyDict(<<>>)),
                   borders |-> Get(country, "borders", PyList(<<>>)),
                   area |-> Get(country, "area", PyFloat(0)),
                   income_level |-> income_level,
                   latitude |-> IF Len(latlng.list) > 0 THEN latlng.list[1] ELSE PyFloat(0),
                   longitude |-> IF Len(latlng.list) > 0 THEN latlng.list[2] ELSE PyFloat(0),
                   population |-> Get(country, "population", PyInt(0)),
                   timezones |-> Get(country, "timezones", PyList(<<"N/A">>))]

\* step 1: init_database creates the tables
main_init_database ==
    /\ ingest.pc = "init_database"
    /\ tables' = tables \cup {"countries", "indicators", "country_data", "country_details"}
    /\ ingest' = [ingest EXCEPT !.pc = "fetch_worldbank_countries",
                                !.started = Append(@, "init_database")]
    /\ UNCHANGED <<countries, country_data, data, response, open_conns>>
    /\ UNCHANGED infoVars

\* step 2: fetch_worldbank_countries, and the test of what it returned
main_fetch_worldbank_countries(resp) ==
    /\ ingest.pc = "fetch_worldbank_countries"
    /\ LET stores == resp.kind = "http" /\ resp.status = 200 /\ resp.list
           done == StoreCountries(countries, ingest.valid_iso3_codes, resp.items, 1)
           raised == stores /\ done.raised
           ret == ReturnOf(resp, raised)
       IN  /\ countries' = IF stores /\ ~raised THEN done.table ELSE countries
           /\ ingest' = [ingest EXCEPT
                            !.valid_iso3_codes = IF stores THEN done.codes ELSE @,
                            !.returned = ret,
                            !.pc = AfterCountries(ret),
                            !.started = Append(@, "fetch_worldbank_countries")]
           /\ open_conns' \in (IF raised THEN Unclosed(open_conns) ELSE {open_conns})
    /\ UNCHANGED <<tables, country_data, data, response>>
    /\ UNCHANGED infoVars

\* step 3, lines 155-163: the codes of SELECT iso_code FROM countries, in the order
\* the query gives them; with no row the loops have no turn
fetch_worldbank_indicator_data_select ==
    /\ ingest.pc = "fetch_worldbank_indicator_data"
    /\ Len(ingest.started) = 2
    /\ \E o \in RowOrders(countries) :
          ingest' = [ingest EXCEPT
                        !.started = Append(@, "fetch_worldbank_indicator_data"),
                        !.todo = Pairs(o),
                        !.npairs = Len(Pairs(o)),
                        !.pc = IF Pairs(o) = <<>> THEN "fetch_restcountries_data" ELSE @]
    /\ UNCHANGED <<tables, countries, country_data, data, response, open_conns>>
    /\ UNCHANGED infoVars

\* step 3, lines 168-185: one turn of the inner loop, the call of
\* fetch_single_indicator_data for the next pair; after the last pair the
\* connection is committed and closed
fetch_worldbank_indicator_data_pair(resp) ==
    /\ ingest.pc = "fetch_worldbank_indicator_data"
    /\ ingest.todo # <<>>
    /\ LET pair == Head(ingest.todo)
           stores == resp.kind = "http" /\ resp.status = 200 /\ resp.list
           done == StoreItems(country_data, ingest.written, pair[1], pair[2], resp.items, 1)
           rest == AfterPair(ingest.todo, FetchOk(resp))
       IN  /\ country_data' = IF stores THEN done.table ELSE country_data
           /\ ingest' = [ingest EXCEPT
                            !.written = IF stores THEN done.written ELSE @,
                            !.todo = rest,
                            !.attempted = @ + 1,
                            !.failed_at = IF ~FetchOk(resp) /\ @ = 0
                                          THEN ingest.attempted + 1 ELSE @,
                            !.pc = IF rest = <<>> THEN "fetch_restcountries_data" ELSE @]
    /\ UNCHANGED <<tables, countries, data, response, open_conns>>
    /\ UNCHANGED infoVars

\* step 4, lines 230-238: the codes country_details holds, and the list to loop over
fetch_restcountries_data_select ==
    /\ ingest.pc = "fetch_restcountries_data"
    /\ Len(ingest.started) = 3
    /\ ingest' = [ingest EXCEPT
                     !.started = Append(@, "fetch_restcountries_data"),
                     !.existing_codes = {row.code : row \in country_details},
                     !.codes_todo = ingest.valid_iso3_codes,
                     !.pc = IF ingest.valid_iso3_codes = <<>>
                            THEN "check_database_status" ELSE @]
    /\ UNCHANGED <<tables, countries, country_data, data, response, open_conns>>
    /\ UNCHANGED infoVars

\* step 4, lines 243-267: one turn of the loop; a code country_details held is
\* passed over, the detail of another is fetched and, unless it is an error, saved;
\* after the last code the connection is committed and closed
fetch_restcountries_data_country(ext, st) ==
    /\ ingest.pc = "fetch_restcountries_data"
    /\ ingest.codes_todo # <<>>
    /\ LET country_code == Head(ingest.codes_todo)
           rest == Tail(ingest.codes_todo)
       IN  /\ IF country_code \in ingest.existing_codes
              THEN UNCHANGED <<country_details, next_id>>
              ELSE \E income_level \in get_income_level_from_wb(countries, country_code) :
                      LET d == get_country_info_from_api(ext, income_level)
                      IN  IF ~IsError(d) /\ st = "ok"
                          THEN /\ country_details' = InsertOrReplace(country_details, d, next_id)
                               /\ next_id' = next_id + 1
                          ELSE UNCHANGED <<country_details, next_id>>
           /\ ingest' = [ingest EXCEPT
                            !.codes_todo = rest,
                            !.pc = IF rest = <<>> THEN "check_database_status" ELSE @]
    /\ UNCHANGED <<tables, countries, country_data, data, response, open_conns, reqs>>

\* step 5: check_database_status counts the rows of the four tables
main_check_database_status ==
    /\ ingest.pc = "check_database_status"
    /\ ingest' = [ingest EXCEPT
                     !.started = Append(@, "check_database_status"),
                     !.pc = IF {"countries", "country_details", "country_data", "indicators"}
                                  \subseteq tables
                            THEN "done" ELSE "raised"]
    /\ UNCHANGED <<tables, countries, country_data, data, response, open_conns>>
    /\ UNCHANGED infoVars

\* main is started on a store that has no table yet
PipelineInit ==
    /\ tables = {}
    /\ countries = {}
    /\ country_data = <<>>
    /\ data = NoData
    /\ response = NoResponse
    /\ country_details = {}
    /\ next_id = 1
    /\ reqs = <<>>
    /\ open_conns = 0
    /\ ingest = [NoIngest EXCEPT !.pc = "init_database"]

PipelineNext ==
    \/ main_init_database
    \/ \E resp \in MainCountryResponses : main_fetch_worldbank_countries(resp)
    \/ fetch_worldbank_indicator_data_select
    \/ \E resp \in MainIndicatorResponses : fetch_worldbank_indicator_data_pair(resp)
    \/ fetch_restcountries_data_select
    \/ \E ext \in MainExtResponses, st \in StoreOutcomes : fetch_restcountries_data_country(ext, st)
    \/ main_check_database_status

\* main is one sequential program and every request it makes has a timeout: the step
\* it is at is taken
PipelineSpec == PipelineInit /\ [][PipelineNext]_vars /\ WF_vars(PipelineNext)

(***************************************************************************)
(* Properties of the batch pipeline (PipelineSpec)                         *)
(***************************************************************************)
IsPrefix(s, t) == Len(s) <= Len(t) /\ \A i \in 1..Len(s) : s[i] = t[i]

\* the steps started so far are the first steps of main, in its order; when
\* fetch_worldbank_countries returned False or None the pipeline has stopped with
\* no indicator fetch and no detail fetch started; once the step after the indicator
\* fetch has started, fetch_single_indicator_data was called for every pair
StepsInOrder ==
    /\ IsPrefix(ingest.started, MainSteps)
    /\ ingest.returned \in {"False", "None"} =>
          /\ ingest.pc = "stopped"
          /\ ingest.started = SubSeq(MainSteps, 1, 2)
          /\ ingest.attempted = 0
          /\ country_data = <<>>
          /\ country_details = {}
    /\ Len(ingest.started) >= 4 =>
          /\ ingest.attempted = ingest.npairs
          /\ ingest.npairs = Len(INDICATORS) * Cardinality(countries)

\* C25: main runs its steps in the order init_database, fetch_worldbank_countries,
\* fetch_worldbank_indicator_data, fetch_restcountries_data, check_database_status;
\* when fetch_worldbank_countries does not return True the pipeline stops and no
\* indicator fetch or detail fetch is ever started, and when it returns True the
\* pipeline runs to the end of check_database_status; after a pair whose fetch
\* failed, every remaining pair is attempted.
C25_PipelineOrder ==
    /\ []StepsInOrder
    /\ [](ingest.pc = "stopped" => [](ingest.pc = "stopped"))
    /\ (ingest.returned = "True") ~> (ingest.pc = "done")
    /\ (ingest.failed_at > 0) ~> (ingest.todo = <<>> /\ ingest.attempted = ingest.npairs)

\* the pipeline ran to its end over two countries, the fetch of a pair that was not
\* the last one failed, and a later pair was stored
C25_Witness ==
    /\ ingest.pc = "done"
    /\ ingest.started = MainSteps
    /\ ingest.npairs = 2 * Len(INDICATORS)
    /\ ingest.attempted = ingest.npairs
    /\ ingest.failed_at = 1
    /\ \E k \in DOMAIN country_data : k[1] = "ROU"

====
